---- MODULE Spec2Model ----
(***************************************************************************)
(* Model of backend/analyzer.py (IEEE 519 power quality analysis engine).  *)
(*                                                                         *)
(* Number representation.  All percentages (THD, TDD, harmonic levels and  *)
(* the limit tables) are fixed-point integers in tenths of a percent, so   *)
(* the limit 1.5 % is 15 and the comparison x > 1.5 * limit is written     *)
(* 2 * x > 3 * limit.  Power factors are integers in thousandths.  The     *)
(* rounding of float64 arithmetic is modelled by integer floor division.   *)
(*                                                                         *)
(* Python dictionaries are functions whose DOMAIN is the set of keys       *)
(* present; d.get(k, default) is Get(d, k, default).                       *)
(***************************************************************************)
EXTENDS Integers, Sequences, FiniteSets, TLC

(***************************************************************************)
(* 1. IEEE 519 STANDARD HARMONIC LIMITS                                    *)
(***************************************************************************)

\* analyzer.py:18-23, in tenths of a percent.
VOLTAGE_LIMITS ==
    [ V_le_1kV        |-> [individual |-> 50, thd |-> 80],
      V_1kV_to_69kV   |-> [individual |-> 30, thd |-> 50],
      V_69kV_to_161kV |-> [individual |-> 15, thd |-> 25],
      V_gt_161kV      |-> [individual |-> 10, thd |-> 15] ]

\* analyzer.py:25-31, in dictionary (insertion) order; max_inf is TRUE for
\* the key whose upper bound is float('inf').
CURRENT_LIMITS_120V_to_69kV ==
    << [min_r |-> 0,    max_r |-> 20,   max_inf |-> FALSE,
        h_lt_11 |-> 40,  h_11_17 |-> 20, h_17_23 |-> 15, h_23_35 |-> 6,  h_gt_35 |-> 3,  tdd |-> 50],
       [min_r |-> 20,   max_r |-> 50,   max_inf |-> FALSE,
        h_lt_11 |-> 70,  h_11_17 |-> 35, h_17_23 |-> 25, h_23_35 |-> 10, h_gt_35 |-> 5,  tdd |-> 80],
       [min_r |-> 50,   max_r |-> 100,  max_inf |-> FALSE,
        h_lt_11 |-> 100, h_11_17 |-> 45, h_17_23 |-> 40, h_23_35 |-> 15, h_gt_35 |-> 7,  tdd |-> 120],
       [min_r |-> 100,  max_r |-> 1000, max_inf |-> FALSE,
        h_lt_11 |-> 120, h_11_17 |-> 55, h_17_23 |-> 50, h_23_35 |-> 20, h_gt_35 |-> 10, tdd |-> 150],
       [min_r |-> 1000, max_r |-> 0,    max_inf |-> TRUE,
        h_lt_11 |-> 150, h_11_17 |-> 70, h_17_23 |-> 60, h_23_35 |-> 25, h_gt_35 |-> 14, tdd |-> 200] >>

\* The phases [1, 2, 3] and the harmonic orders range(2, 51).
Phases == 1..3
HarmonicOrders == 2..50

(***************************************************************************)
(* Dictionaries, cells and series                                          *)
(***************************************************************************)

EmptyDict == [k \in {} |-> 0]

Get(d, k, default) == IF k \in DOMAIN d THEN d[k] ELSE default

Put(d, k, v) == (k :> v) @@ d

\* A spreadsheet cell: a number, or something pd.to_numeric cannot parse.
Num(v) == [ok |-> TRUE, v |-> v]
NaN == [ok |-> FALSE, v |-> 0]

\* to_numeric_safe (analyzer.py:50-60): errors='coerce' turns an unparsable
\* cell into NaN and fillna(0) turns that into 0.
to_numeric_safe(series) ==
    [i \in 1..Len(series) |-> IF series[i].ok THEN series[i].v ELSE 0]

RECURSIVE Sum(_)
Sum(s) == IF s = <<>> THEN 0 ELSE Head(s) + Sum(Tail(s))

RECURSIVE Insert(_, _)
Insert(x, s) ==
    IF s = <<>> THEN <<x>>
    ELSE IF x <= Head(s) THEN <<x>> \o s
    ELSE <<Head(s)>> \o Insert(x, Tail(s))

RECURSIVE Sorted(_)
Sorted(s) == IF s = <<>> THEN <<>> ELSE Insert(Head(s), Sorted(Tail(s)))

\* Series.quantile(q) with pandas' default linear interpolation between the
\* order statistics; percentile is 95 or 99.
Quantile(series, percentile) ==
    LET n    == Len(series)
        s    == Sorted(series)
        pos  == (n - 1) * percentile
        lo   == (pos \div 100) + 1
        frac == pos % 100
        hi   == IF lo < n THEN lo + 1 ELSE n
    IN  s[lo] + ((frac * (s[hi] - s[lo])) \div 100)

\* get_percentile_safe (analyzer.py:62-75).  The series it is given have
\* been through fillna(0) or dropna(), so they hold no NaN.
get_percentile_safe(series, percentile) ==
    IF series = <<>> THEN 0 ELSE Quantile(series, percentile)

(***************************************************************************)
(* Worksheets.  A DataFrame is column-major: `cols` is df.columns, `n` the *)
(* number of rows and data[c] the cells of column c.  The Trend sheet      *)
(* keeps its Date and Time columns apart from the numeric channels.        *)
(***************************************************************************)

\* The channels series_to_json_list is called with (analyzer.py:385-428).
ChartedColumns ==
    { "U1 RMS", "U2 RMS", "U3 RMS", "V1 RMS", "V2 RMS", "V3 RMS",
      "A1 RMS", "A2 RMS", "A3 RMS",
      "W Total", "var Total", "VA Total", "Wh Total", "varh Total", "VAh Total",
      "U1 THD", "U2 THD", "U3 THD", "A1 THD", "A2 THD", "A3 THD",
      "PF1", "PF2", "PF3", "PF Mean", "Vunb", "Aunb" }

\* f'{thd_type}{p} THD' (analyzer.py:92).
ThdColumn(thd_type, p) ==
    IF thd_type = "U"
    THEN (IF p = 1 THEN "U1 THD" ELSE IF p = 2 THEN "U2 THD" ELSE "U3 THD")
    ELSE (IF p = 1 THEN "A1 THD" ELSE IF p = 2 THEN "A2 THD" ELSE "A3 THD")

\* f'{prefix}{p}h{h}' (analyzer.py:128): the name of a harmonic column.
HarmonicColumn(prefix, p, h) == <<prefix, p, h>>

\* f"U{phase}", f"V{phase}", f"A{phase}" (analyzer.py:304, 317, 343, 361).
PhaseName(letter, p) ==
    IF letter = "U" THEN (IF p = 1 THEN "U1" ELSE IF p = 2 THEN "U2" ELSE "U3")
    ELSE IF letter = "V" THEN (IF p = 1 THEN "V1" ELSE IF p = 2 THEN "V2" ELSE "V3")
    ELSE (IF p = 1 THEN "A1" ELSE IF p = 2 THEN "A2" ELSE "A3")

(***************************************************************************)
(* Requests: the inputs analyze_full_data is called with                   *)
(***************************************************************************)

\* Rows of a generated Trend sheet (a bound of the model).
MaxRows == 2

\* A Date cell 'dd/mm/yyyy' with a Buddhist-era year, or a malformed one.
DateCell(d, m, y) == [ok |-> TRUE, day |-> d, month |-> m, year |-> y]
BadDate == [ok |-> FALSE, day |-> 0, month |-> 0, year |-> 0]
\* A Time cell 'HH:MM:SS', as the minute of the day.
TimeCell(minute) == [ok |-> TRUE, minute |-> minute]

\* How the rows of a generated Trend sheet are stamped: "regular" is one
\* sample every 7 minutes, "repeated" gives every row the same instant,
\* "malformed" gives every row an unparsable date.
StampPatterns == {"regular", "repeated", "malformed"}

StampDate(pattern, i) ==
    IF pattern = "malformed" THEN BadDate ELSE DateCell(1, 3, 2567)

StampTime(pattern, i) ==
    IF pattern = "regular" THEN TimeCell(7 * (i - 1)) ELSE TimeCell(0)

\* What the channels of a generated Trend sheet measure.
SignalLevels == {"quiet", "distorted", "garbage"}

\* The cell of channel c in row i.
SignalCell(level, c, i) ==
    IF level = "quiet" THEN
        ( IF c \in {"U1 THD", "U2 THD", "U3 THD", "A1 THD", "A2 THD", "A3 THD"} THEN Num(0)
          ELSE IF c = "W Total" THEN Num(96)
          ELSE IF c = "VA Total" THEN Num(100)
          ELSE IF c \in {"A1 RMS", "A2 RMS", "A3 RMS"} THEN Num(40)
          ELSE Num(230) )
    ELSE IF level = "distorted" THEN
        ( IF c = "U1 THD" THEN Num(90 + 40 * (i - 1))
          ELSE IF c = "U2 THD" THEN Num(30)
          ELSE IF c = "U3 THD" THEN Num(20 + 110 * (i - 1))
          ELSE IF c = "A1 THD" THEN Num(250)
          ELSE IF c = "A2 THD" THEN Num(60 + 30 * (i - 1))
          ELSE IF c = "A3 THD" THEN Num(0)
          ELSE IF c = "W Total" THEN Num(80)
          ELSE IF c = "VA Total" THEN Num(100)
          ELSE IF c \in {"A1 RMS", "A2 RMS", "A3 RMS"} THEN Num(40)
          ELSE Num(230) )
    ELSE
        ( IF i % 2 = 1 THEN NaN
          ELSE IF c = "VA Total" THEN Num(0)
          ELSE IF c = "W Total" THEN Num(50)
          ELSE Num(300) )

\* The sets of columns a generated Trend sheet has: every channel; the
\* channels of the "healthy" end-to-end scenario (U1 RMS and the THD of
\* every phase); a sheet short of most channels.
HealthyColumns ==
    {"Date", "Time", "U1 RMS", "U1 THD", "U2 THD", "U3 THD", "A1 THD", "A2 THD", "A3 THD"}

SparseColumns == {"Date", "Time", "U2 THD", "A1 THD", "A3 THD", "VA Total"}

TrendColumnSets == { {"Date", "Time"} \cup ChartedColumns, HealthyColumns, SparseColumns }

MakeTrend(cols, n, pattern, level) ==
    [ cols |-> cols,
      n    |-> n,
      Date |-> [i \in 1..n |-> StampDate(pattern, i)],
      Time |-> [i \in 1..n |-> StampTime(pattern, i)],
      data |-> [c \in cols \cap ChartedColumns |-> [i \in 1..n |-> SignalCell(level, c, i)]] ]

TrendSheets ==
    { MakeTrend(cols, 0, "regular", "quiet") : cols \in TrendColumnSets }
    \cup
    { MakeTrend(x[1], x[2], x[3], x[4]) :
        x \in TrendColumnSets \X (1..MaxRows) \X StampPatterns \X SignalLevels }

\* Harmonic sheets: a function from the columns present to their cells.
MakeHarmonics(data, n) == [cols |-> DOMAIN data, n |-> n, data |-> data]

\* No harmonic column at all.
NoHarmonics(prefix) == MakeHarmonics(EmptyDict, 1)

\* Low levels on all three phases of orders 3 and 5.
LowHarmonics(prefix) ==
    MakeHarmonics(
        [c \in {HarmonicColumn(prefix, p, h) : p \in Phases, h \in {3, 5}} |-> <<Num(6), Num(8)>>],
        2)

\* Orders 5 and 7 high on phase 1, order 11 high on phases 1 and 2,
\* order 37 present on phase 2 alone, order 50 unparsable on phase 3.
HighHarmonics(prefix) ==
    MakeHarmonics(
        [c \in { HarmonicColumn(prefix, 1, 5), HarmonicColumn(prefix, 1, 7),
                 HarmonicColumn(prefix, 1, 11), HarmonicColumn(prefix, 2, 11),
                 HarmonicColumn(prefix, 2, 37), HarmonicColumn(prefix, 3, 50) } |->
            IF c[3] \in {5, 7} THEN <<Num(200), Num(160)>>
            ELSE IF c[3] = 11 THEN <<Num(90), Num(90)>>
            ELSE IF c[3] = 37 THEN <<Num(12), Num(12)>>
            ELSE <<NaN, NaN>>],
        2)

HarmonicSheets(prefix) == {NoHarmonics(prefix), LowHarmonics(prefix), HighHarmonics(prefix)}

\* dfs: the worksheets by name.  A sheet the workbook lacks is no key.
SheetNames == {"Trend", "Vh Harmonic %", "Ah Harmonic %"}

Workbook(trend, vh, ah) ==
    [name \in SheetNames |->
        IF name = "Trend" THEN trend ELSE IF name = "Vh Harmonic %" THEN vh ELSE ah]

Without(book, missing) == [name \in (DOMAIN book) \ missing |-> book[name]]

\* Nominal voltages on both sides of every band edge, in volts.
NominalVoltages == {400, 1000, 1001, 69000, 69001, 161000, 161001}

\* Short-circuit currents and maximum demand load currents, in amperes:
\* with Il = 50 the ratios are 0, 19.98, 20, 50, 100 and 1000; an Il that
\* is unset (0) or negative is a degenerate input.
IscValues == {0, 999, 1000, 2500, 5000, 50000}
IlValues == {-50, 0, 50}

(***************************************************************************)
(* 2. HELPER FUNCTIONS                                                     *)
(***************************************************************************)

\* thai_to_gregorian_year (analyzer.py:177-195): a well-formed date has 543
\* taken from its year, a malformed one is returned unchanged.
thai_to_gregorian_year(date_str) ==
    IF date_str.ok THEN [date_str EXCEPT !.year = @ - 543] ELSE date_str

\* pd.to_datetime(..., format='%d/%m/%Y %H:%M:%S', errors='coerce')
\* (analyzer.py:232): an instant <<year, month, day, minute>>, or NaT.
NaT == <<>>

to_datetime(date_str, time_str) ==
    IF date_str.ok /\ time_str.ok
    THEN <<date_str.year, date_str.month, date_str.day, time_str.minute>>
    ELSE NaT

\* The rows of s whose positions are in keep, in order.
RECURSIVE Rows(_, _, _)
Rows(s, keep, i) ==
    IF i > Len(s) THEN <<>>
    ELSE (IF i \in keep THEN <<s[i]>> ELSE <<>>) \o Rows(s, keep, i + 1)

\* analyzer.py:229-235: the Timestamp column is built from Date and Time
\* (an absent column is an empty series, which leaves every row NaT), rows
\* without a timestamp are dropped, the timestamp becomes the index and of
\* rows with the same timestamp the first is kept.
clean_trend(df_trend) ==
    LET stamp(i) ==
            IF "Date" \in df_trend.cols /\ "Time" \in df_trend.cols
            THEN to_datetime(thai_to_gregorian_year(df_trend.Date[i]), df_trend.Time[i])
            ELSE NaT
        keep == { i \in 1..df_trend.n :
                    /\ stamp(i) /= NaT
                    /\ \A j \in 1..(i - 1) : stamp(j) /= stamp(i) }
    IN  [ cols  |-> df_trend.cols,
          index |-> Rows([i \in 1..df_trend.n |-> stamp(i)], keep, 1),
          data  |-> [c \in DOMAIN df_trend.data |-> Rows(df_trend.data[c], keep, 1)] ]

\* The 10-minute bin of an instant (Series.resample('10min')).
Bin10min(t) == <<t[1], t[2], t[3], t[4] \div 10>>

\* series.resample('10min').apply(95th percentile).dropna()
\* (analyzer.py:101): one value per non-empty bin, in index order.
RECURSIVE Resample10min(_, _, _)
Resample10min(index, series, i) ==
    IF i > Len(index) THEN <<>>
    ELSE LET bin    == Bin10min(index[i])
             first  == \A j \in 1..(i - 1) : Bin10min(index[j]) /= bin
             inBin  == { j \in 1..Len(index) : Bin10min(index[j]) = bin }
         IN  (IF first THEN <<get_percentile_safe(Rows(series, inBin, 1), 95)>> ELSE <<>>)
             \o Resample10min(index, series, i + 1)

\* One column's share of calculate_thd_percentiles (analyzer.py:94-107);
\* the keys f'{col}_99th_3s' ... are the pairs <<col, "99th_3s">> ...
RECURSIVE thd_percentiles_from(_, _, _, _)
thd_percentiles_from(df, thd_type, p, results) ==
    IF p > 3 THEN results
    ELSE LET col == ThdColumn(thd_type, p)
             series == to_numeric_safe(df.data[col])
             resampled_10min == Resample10min(df.index, series, 1)
             r1 == IF col \in df.cols /\ series /= <<>>
                   THEN Put(results, <<col, "99th_3s">>, get_percentile_safe(series, 99))
                   ELSE results
             r2 == IF col \in df.cols /\ series /= <<>> /\ resampled_10min /= <<>>
                   THEN Put(Put(r1, <<col, "95th_10min">>, get_percentile_safe(resampled_10min, 95)),
                            <<col, "99th_10min">>, get_percentile_safe(resampled_10min, 99))
                   ELSE r1
         IN  thd_percentiles_from(df, thd_type, p + 1, r2)

\* calculate_thd_percentiles (analyzer.py:77-108).
calculate_thd_percentiles(df, thd_type) == thd_percentiles_from(df, thd_type, 1, EmptyDict)

\* calculate_individual_harmonic_percentiles (analyzer.py:110-133), with
\* percentile = 95; the key f'{col}_95th' is the column itself.
calculate_individual_harmonic_percentiles(df, prefix) ==
    LET present == { c \in df.cols :
                        /\ c[1] = prefix /\ c[2] \in Phases /\ c[3] \in HarmonicOrders
                        /\ df.data[c] /= <<>> }
    IN  [c \in present |-> get_percentile_safe(to_numeric_safe(df.data[c]), 95)]

\* get_current_limit_for_harmonic (analyzer.py:135-152); limit_row is never
\* None where it is called.
get_current_limit_for_harmonic(order, limit_row) ==
    IF order < 11 THEN limit_row.h_lt_11
    ELSE IF 11 <= order /\ order < 17 THEN limit_row.h_11_17
    ELSE IF 17 <= order /\ order < 23 THEN limit_row.h_17_23
    ELSE IF 23 <= order /\ order < 35 THEN limit_row.h_23_35
    ELSE limit_row.h_gt_35

RecVoltage == "Investigate voltage sources for harmonic distortion. Consider passive or active harmonic filters."
RecCurrent == "Identify non-linear loads causing current distortion. Consider installing harmonic filters."
RecPowerFactor == "Improve power factor by installing capacitor banks or using active power factor correction (PFC)."
RecHealthy == "System power quality appears to be in good condition. Continuous monitoring is recommended."

\* Mutant of generate_recommendations: the rules are an if/elif chain.
generate_recommendations_elif(analysis_summary) ==
    IF analysis_summary.voltage_compliance = "Fail" THEN <<RecVoltage>>
    ELSE IF analysis_summary.current_compliance = "Fail" THEN <<RecCurrent>>
    ELSE IF analysis_summary.summary_stats.power_factor_avg < 950 THEN <<RecPowerFactor>>
    ELSE <<RecHealthy>>

\* generate_recommendations (analyzer.py:154-175); power_factor_avg is in
\* thousandths, so 0.95 is 950.
generate_recommendations(analysis_summary) ==
    LET r1 == IF analysis_summary.voltage_compliance = "Fail" THEN <<RecVoltage>> ELSE <<>>
        r2 == IF analysis_summary.current_compliance = "Fail" THEN Append(r1, RecCurrent) ELSE r1
        r3 == IF analysis_summary.summary_stats.power_factor_avg < 950
              THEN Append(r2, RecPowerFactor) ELSE r2
    IN  IF r3 = <<>> THEN <<RecHealthy>> ELSE r3

\* nan_to_zero(series.mean()) (analyzer.py:244-258): the mean of no value
\* is NaN, reported as 0.
mean_or_zero(series) == IF series = <<>> THEN 0 ELSE Sum(series) \div Len(series)

Column(df, col) == IF col \in df.cols THEN to_numeric_safe(df.data[col]) ELSE <<>>

\* analyzer.py:266-269: the mean of W Total / VA Total over the rows whose
\* VA Total is not 0, in thousandths; 0 when there is no such row.  When a
\* column is absent its stand-in pd.Series([0]) shares no index label with
\* the other series, so every quotient is NaN.
power_factor_avg(df) ==
    LET active_power == Column(df, "W Total")
        apparent_power == Column(df, "VA Total")
        rows == IF "W Total" \in df.cols /\ "VA Total" \in df.cols
                THEN { i \in 1..Len(apparent_power) : apparent_power[i] /= 0 }
                ELSE {}
        power_factors == Rows([i \in 1..Len(active_power) |->
                                  IF i \in rows THEN (active_power[i] * 1000) \div apparent_power[i] ELSE 0],
                              rows, 1)
    IN  mean_or_zero(power_factors)

\* The largest r with r * r <= x, for the square root in the TDD.
Isqrt(x) == CHOOSE r \in 0..x : r * r <= x /\ (r + 1) * (r + 1) > x

\* Mutant of total_demand_distortion: the guard tests il != 0 for il > 0.
total_demand_distortion_nonzero_load(thdi_for_tdd, current_rms_avg, load) ==
    IF thdi_for_tdd > 0 /\ current_rms_avg > 0 /\ load /= 0
    THEN (current_rms_avg * thdi_for_tdd * 1000)
            \div (Isqrt(1000000 + thdi_for_tdd * thdi_for_tdd) * load)
    ELSE 0

\* analyzer.py:271-277, all percentages in tenths of a percent:
\*   thdi_per_unit = thdi / 1000,
\*   Ih_rms = current_rms_avg / sqrt(1 + thdi_per_unit^2) * thdi_per_unit,
\*   tdd = Ih_rms / il * 1000.
total_demand_distortion(thdi_for_tdd, current_rms_avg, load) ==
    IF thdi_for_tdd > 0 /\ current_rms_avg > 0 /\ load > 0
    THEN (current_rms_avg * thdi_for_tdd * 1000)
            \div (Isqrt(1000000 + thdi_for_tdd * thdi_for_tdd) * load)
    ELSE 0

(***************************************************************************)
(* 3. MAIN ANALYSIS FUNCTION: analyze_full_data as a state machine         *)
(***************************************************************************)

VARIABLES
    dfs, nominal_voltage, isc, il,      \* the arguments
    pc,                                 \* the position in analyze_full_data
    clean_df,
    voltage_thd_percentiles, current_thd_percentiles,
    summary_stats, tdd,
    failing_points,
    voltage_compliance, v_limit_table,
    current_compliance, c_limit_row,
    phase,                              \* the loop variable of the THD loops
    bar_chart_data, trend_data,
    analysis_results,                   \* the report returned
    raised                              \* the exception raised, or "none"

vars == << dfs, nominal_voltage, isc, il, pc, clean_df,
           voltage_thd_percentiles, current_thd_percentiles, summary_stats, tdd,
           failing_points, voltage_compliance, v_limit_table,
           current_compliance, c_limit_row, phase,
           bar_chart_data, trend_data, analysis_results, raised >>

\* The value of a local that is not bound yet.
Unbound == "unbound"

\* The description of a failing point: a fixed text, or f"Harmonic {h} >
\* limit" with its h.
Description(text, h) == [text |-> text, h |-> h]

\* add_failing_point (analyzer.py:286-295).  phase is the joined phase
\* names as a sequence, <<>> standing for None or ''; harmonic is 0 for
\* None.
add_failing_point(fp, category, description, ph, harmonic) ==
    LET fp1 == IF category \notin DOMAIN fp THEN Put(fp, category, EmptyDict) ELSE fp
        cat == fp1[category]
        cat1 == IF description \notin DOMAIN cat
                THEN Put(cat, description, [phases |-> <<>>, harmonics |-> <<>>])
                ELSE cat
        e == cat1[description]
        e1 == IF ph /= <<>> /\ \A i \in 1..Len(e.phases) : e.phases[i] /= ph
              THEN [e EXCEPT !.phases = Append(@, ph)] ELSE e
        e2 == IF harmonic /= 0 /\ \A i \in 1..Len(e1.harmonics) : e1.harmonics[i] /= harmonic
              THEN [e1 EXCEPT !.harmonics = Append(@, harmonic)] ELSE e1
    IN  Put(fp1, category, Put(cat1, description, e2))

\* Mutant of verdict_after: a violated check leaves the verdict as it was.
verdict_unchanged(compliance, violated) == compliance

\* Mutant of verdict_after: a check that passes sets the verdict to "Pass".
verdict_reset(compliance, violated) == IF violated THEN "Fail" ELSE "Pass"

\* `if cond: compliance = "Fail"`: what a verdict is after one check.
verdict_after(compliance, violated) == IF violated THEN "Fail" ELSE compliance

\* Mutant of select_v_limit_table: the band edges compared with < for <=.
select_v_limit_table_open_edges(voltage) ==
    IF voltage < 1000 THEN "V_le_1kV"
    ELSE IF voltage < 69000 THEN "V_1kV_to_69kV"
    ELSE IF voltage < 161000 THEN "V_69kV_to_161kV"
    ELSE "V_gt_161kV"

\* analyzer.py:281-284.
select_v_limit_table(voltage) ==
    IF voltage <= 1000 THEN "V_le_1kV"
    ELSE IF voltage <= 69000 THEN "V_1kV_to_69kV"
    ELSE IF voltage <= 161000 THEN "V_69kV_to_161kV"
    ELSE "V_gt_161kV"

\* analyzer.py:323: isc / il if il > 0 else 0, as a fraction.
isc_il_ratio(short_circuit, load) ==
    IF load > 0 THEN [num |-> short_circuit, den |-> load] ELSE [num |-> 0, den |-> 1]

\* Mutant of in_band: the upper edge of a band belongs to it.
in_band_closed_high(ratio, row) ==
    /\ row.min_r * ratio.den <= ratio.num
    /\ (row.max_inf \/ ratio.num <= row.max_r * ratio.den)

\* min_r <= isc_il_ratio < max_r (analyzer.py:327).
in_band(ratio, row) ==
    /\ row.min_r * ratio.den <= ratio.num
    /\ (row.max_inf \/ ratio.num < row.max_r * ratio.den)

\* Mutant of select_c_limit_row: the row is looked up at every voltage.
select_c_limit_row_any_voltage(voltage, ratio) ==
    LET hits == { k \in 1..Len(CURRENT_LIMITS_120V_to_69kV) :
                    in_band(ratio, CURRENT_LIMITS_120V_to_69kV[k]) }
    IN  IF hits /= {} THEN CHOOSE k \in hits : \A j \in hits : k <= j ELSE 0

\* analyzer.py:324-329: the first row, in dictionary order, whose band
\* holds the ratio, as its position in CURRENT_LIMITS_120V_to_69kV; 0 is
\* None.
select_c_limit_row(voltage, ratio) ==
    LET hits == { k \in 1..Len(CURRENT_LIMITS_120V_to_69kV) :
                    in_band(ratio, CURRENT_LIMITS_120V_to_69kV[k]) }
    IN  IF voltage <= 69000 /\ hits /= {}
        THEN CHOOSE k \in hits : \A j \in hits : k <= j
        ELSE 0

\* analyzer.py:299-308: the two voltage THD rules of one phase.
voltage_thd_check(p, percentiles, limits, compliance, fp) ==
    LET col == ThdColumn("U", p)
        thdv_99th_3s == Get(percentiles, <<col, "99th_3s">>, 0)
        thdv_95th_10min == Get(percentiles, <<col, "95th_10min">>, 0)
        spike == 2 * thdv_99th_3s > 3 * limits.thd
        sustained == thdv_95th_10min > limits.thd
        c1 == verdict_after(compliance, spike)
        f1 == IF spike
              THEN add_failing_point(fp, "Voltage THD",
                       Description("99th Percentile (3s) > 1.5x limit", 0), <<PhaseName("U", p)>>, 0)
              ELSE fp
        c2 == verdict_after(c1, sustained)
        f2 == IF sustained
              THEN add_failing_point(f1, "Voltage THD",
                       Description("95th Percentile (10min) > limit", 0), <<PhaseName("U", p)>>, 0)
              ELSE f1
    IN  [compliance |-> c2, failing_points |-> f2]

\* The verdict after the inner loop over the phases of one order
\* (analyzer.py:313-317, 356-361), from phase p on.
RECURSIVE verdict_after_phases(_, _, _)
verdict_after_phases(compliance, violated, p) ==
    IF p > 3 THEN compliance
    ELSE verdict_after_phases(verdict_after(compliance, violated[p]), violated, p + 1)

\* ", ".join(failed_phases): the names of the failed phases, in order.
failed_phase_names(letter, violated) ==
    LET Failed(p) == violated[p]
        failed == SelectSeq(<<1, 2, 3>>, Failed)
    IN  [i \in 1..Len(failed) |-> PhaseName(letter, failed[i])]

\* analyzer.py:311-319: the individual voltage harmonics, from order h on.
\* An order no phase fails at assigns nothing.
RECURSIVE voltage_harmonics_from(_, _, _, _, _)
voltage_harmonics_from(h, percentiles, limits, compliance, fp) ==
    IF h > 50 THEN [compliance |-> compliance, failing_points |-> fp]
    ELSE LET violated == [p \in Phases |->
                            Get(percentiles, HarmonicColumn("V", p, h), 0) > limits.individual]
             failed_phases == failed_phase_names("V", violated)
         IN  IF failed_phases /= <<>>
             THEN voltage_harmonics_from(h + 1, percentiles, limits,
                      verdict_after_phases(compliance, violated, 1),
                      add_failing_point(fp, "Individual Voltage Harmonics",
                          Description("Harmonic {h} > limit", h), failed_phases, 0))
             ELSE voltage_harmonics_from(h + 1, percentiles, limits, compliance, fp)

\* analyzer.py:332-334: the TDD rule.
current_tdd_check(demand_distortion, limit_row, compliance, fp) ==
    LET violated == demand_distortion > limit_row.tdd
    IN  [ compliance |-> verdict_after(compliance, violated),
          failing_points |-> IF violated
                             THEN add_failing_point(fp, "Current TDD",
                                      Description("Overall TDD > limit", 0), <<>>, 0)
                             ELSE fp ]

\* analyzer.py:337-351: the three current THD rules of one phase.
current_thd_check(p, percentiles, limit_row, compliance, fp) ==
    LET col == ThdColumn("A", p)
        thdi_99th_3s == Get(percentiles, <<col, "99th_3s">>, 0)
        thdi_95th_10min == Get(percentiles, <<col, "95th_10min">>, 0)
        thdi_99th_10min == Get(percentiles, <<col, "99th_10min">>, 0)
        v1 == thdi_99th_3s > limit_row.tdd * 2
        v2 == thdi_95th_10min > limit_row.tdd
        v3 == 2 * thdi_99th_10min > 3 * limit_row.tdd
        f1 == IF v1
              THEN add_failing_point(fp, "Current THD",
                       Description("99th Percentile (3s) > 1.5x TDD limit", 0), <<PhaseName("A", p)>>, 0)
              ELSE fp
        f2 == IF v2
              THEN add_failing_point(f1, "Current THD",
                       Description("95th Percentile (10min) > TDD limit", 0), <<PhaseName("A", p)>>, 0)
              ELSE f1
        f3 == IF v3
              THEN add_failing_point(f2, "Current THD",
                       Description("99th Percentile (10min) > 1.5x TDD limit", 0), <<PhaseName("A", p)>>, 0)
              ELSE f2
    IN  [ compliance |-> verdict_after(verdict_after(verdict_after(compliance, v1), v2), v3),
          failing_points |-> f3 ]

\* analyzer.py:354-363: the individual current harmonics, from order h on.
RECURSIVE current_harmonics_from(_, _, _, _, _)
current_harmonics_from(h, percentiles, limit_row, compliance, fp) ==
    IF h > 50 THEN [compliance |-> compliance, failing_points |-> fp]
    ELSE LET limit == get_current_limit_for_harmonic(h, limit_row)
             violated == [p \in Phases |-> Get(percentiles, HarmonicColumn("A", p, h), 0) > limit]
             failed_phases == failed_phase_names("A", violated)
         IN  IF failed_phases /= <<>>
             THEN current_harmonics_from(h + 1, percentiles, limit_row,
                      verdict_after_phases(compliance, violated, 1),
                      add_failing_point(fp, "Individual Current Harmonics",
                          Description("Harmonic {h} > limit", h), failed_phases, 0))
             ELSE current_harmonics_from(h + 1, percentiles, limit_row, compliance, fp)

\* analyzer.py:373-377: np.mean of the three values
\* percentiles.get(f'{prefix}{p}h{h}_95th', 0) for p in [1, 2, 3].
bar_value(percentiles, prefix, h) ==
    LET h_values == [p \in 1..3 |-> Get(percentiles, HarmonicColumn(prefix, p, h), 0)]
    IN  Sum(h_values) \div Len(h_values)

\* series_to_json_list (analyzer.py:382-383).  clean_df.get(col_name) is
\* None for an absent column; pd.to_numeric(None, errors='coerce') is a
\* float, which has no fillna: AttributeError.
can_chart(df, col_name) == col_name \in df.cols

\* The workbooks a request may carry: every combination of generated
\* sheets, and one workbook short of each non-empty set of sheets.
Workbooks ==
    { Workbook(x[1], x[2], x[3]) :
        x \in TrendSheets \X HarmonicSheets("V") \X HarmonicSheets("A") }
    \cup
    { Without(Workbook(MakeTrend(HealthyColumns, 1, "regular", "quiet"),
                       NoHarmonics("V"), NoHarmonics("A")), missing) :
        missing \in (SUBSET SheetNames) \ {{}} }

\* The scalar arguments of a request.
Parameters(voltage, short_circuit, load) ==
    [nominal_voltage |-> voltage, isc |-> short_circuit, il |-> load]

AllParameters ==
    { Parameters(x[1], x[2], x[3]) : x \in NominalVoltages \X IscValues \X IlValues }

\* The parameters every workbook is analysed under: a low-voltage site
\* with Isc/Il = 20, the same with Il unset, a medium-voltage site with
\* Isc/Il = 1000, and a site above 69 kV.
ReferenceParameters ==
    { Parameters(400, 1000, 50), Parameters(400, 1000, 0),
      Parameters(20000, 50000, 50), Parameters(69001, 1000, 50) }

\* The harmonic sheets the reference workbooks pair.
ReferenceHarmonics == {"low", "high"}

\* The workbooks every combination of parameters is analysed with: a
\* complete Trend sheet, quiet or distorted, with low or high harmonics.
ReferenceWorkbooks ==
    { Workbook(MakeTrend({"Date", "Time"} \cup ChartedColumns, MaxRows, "regular", x[1]),
               IF x[2] = "low" THEN LowHarmonics("V") ELSE HighHarmonics("V"),
               IF x[2] = "low" THEN LowHarmonics("A") ELSE HighHarmonics("A")) :
        x \in {"quiet", "distorted"} \X ReferenceHarmonics }

Requests == (Workbooks \X ReferenceParameters) \cup (ReferenceWorkbooks \X AllParameters)

Init ==
    /\ \E request \in Requests :
          /\ dfs = request[1]
          /\ nominal_voltage = request[2].nominal_voltage
          /\ isc = request[2].isc
          /\ il = request[2].il
    /\ pc = "load"
    /\ clean_df = EmptyDict
    /\ voltage_thd_percentiles = EmptyDict
    /\ current_thd_percentiles = EmptyDict
    /\ summary_stats = EmptyDict
    /\ tdd = 0
    /\ failing_points = EmptyDict
    /\ voltage_compliance = Unbound
    /\ v_limit_table = Unbound
    /\ current_compliance = Unbound
    /\ c_limit_row = 0
    /\ phase = 0
    /\ bar_chart_data = EmptyDict
    /\ trend_data = EmptyDict
    /\ analysis_results = EmptyDict
    /\ raised = "none"

\* analyzer.py:222-227.
LoadSheets ==
    /\ pc = "load"
    /\ IF SheetNames \subseteq DOMAIN dfs
       THEN pc' = "clean" /\ raised' = raised
       ELSE pc' = "done" /\ raised' = "ValueError"
    /\ UNCHANGED << dfs, nominal_voltage, isc, il, clean_df,
                    voltage_thd_percentiles, current_thd_percentiles, summary_stats, tdd,
                    failing_points, voltage_compliance, v_limit_table,
                    current_compliance, c_limit_row, phase,
                    bar_chart_data, trend_data, analysis_results >>

\* analyzer.py:229-235.
CleanTrend ==
    /\ pc = "clean"
    /\ clean_df' = clean_trend(dfs["Trend"])
    /\ pc' = "thd"
    /\ UNCHANGED << dfs, nominal_voltage, isc, il,
                    voltage_thd_percentiles, current_thd_percentiles, summary_stats, tdd,
                    failing_points, voltage_compliance, v_limit_table,
                    current_compliance, c_limit_row, phase,
                    bar_chart_data, trend_data, analysis_results, raised >>

\* analyzer.py:237-238.
ThdPercentiles ==
    /\ pc = "thd"
    /\ voltage_thd_percentiles' = calculate_thd_percentiles(clean_df, "U")
    /\ current_thd_percentiles' = calculate_thd_percentiles(clean_df, "A")
    /\ pc' = "stats"
    /\ UNCHANGED << dfs, nominal_voltage, isc, il, clean_df, summary_stats, tdd,
                    failing_points, voltage_compliance, v_limit_table,
                    current_compliance, c_limit_row, phase,
                    bar_chart_data, trend_data, analysis_results, raised >>

\* analyzer.py:240-269, the statistics the analysis reads again.
SummaryStats ==
    /\ pc = "stats"
    /\ summary_stats' =
          [ a1_rms_avg       |-> mean_or_zero(Column(clean_df, "A1 RMS")),
            thdv_percent_avg |-> Get(voltage_thd_percentiles, <<"U1 THD", "95th_10min">>, 0),
            thdi_percent_avg |-> Get(current_thd_percentiles, <<"A1 THD", "95th_10min">>, 0),
            power_factor_avg |-> power_factor_avg(clean_df) ]
    /\ pc' = "tdd"
    /\ UNCHANGED << dfs, nominal_voltage, isc, il, clean_df,
                    voltage_thd_percentiles, current_thd_percentiles, tdd,
                    failing_points, voltage_compliance, v_limit_table,
                    current_compliance, c_limit_row, phase,
                    bar_chart_data, trend_data, analysis_results, raised >>

\* analyzer.py:271-277.
Tdd ==
    /\ pc = "tdd"
    /\ tdd' = total_demand_distortion(
                  Get(current_thd_percentiles, <<"A1 THD", "95th_10min">>, 0),
                  summary_stats.a1_rms_avg, il)
    /\ pc' = "vlimit"
    /\ UNCHANGED << dfs, nominal_voltage, isc, il, clean_df,
                    voltage_thd_percentiles, current_thd_percentiles, summary_stats,
                    failing_points, voltage_compliance, v_limit_table,
                    current_compliance, c_limit_row, phase,
                    bar_chart_data, trend_data, analysis_results, raised >>

\* analyzer.py:279-284.
VoltageLimit ==
    /\ pc = "vlimit"
    /\ failing_points' = EmptyDict
    /\ voltage_compliance' = "Pass"
    /\ v_limit_table' = select_v_limit_table(nominal_voltage)
    /\ phase' = 1
    /\ pc' = "vthd"
    /\ UNCHANGED << dfs, nominal_voltage, isc, il, clean_df,
                    voltage_thd_percentiles, current_thd_percentiles, summary_stats, tdd,
                    current_compliance, c_limit_row,
                    bar_chart_data, trend_data, analysis_results, raised >>

\* analyzer.py:298-308, one iteration of the loop over the phases.
VoltageThd ==
    /\ pc = "vthd"
    /\ LET r == voltage_thd_check(phase, voltage_thd_percentiles,
                                  VOLTAGE_LIMITS[v_limit_table],
                                  voltage_compliance, failing_points)
       IN  /\ voltage_compliance' = r.compliance
           /\ failing_points' = r.failing_points
    /\ IF phase < 3
       THEN phase' = phase + 1 /\ pc' = pc
       ELSE phase' = phase /\ pc' = "vharm"
    /\ UNCHANGED << dfs, nominal_voltage, isc, il, clean_df,
                    voltage_thd_percentiles, current_thd_percentiles, summary_stats, tdd,
                    v_limit_table, current_compliance, c_limit_row,
                    bar_chart_data, trend_data, analysis_results, raised >>

\* analyzer.py:310-319.
VoltageHarmonics ==
    /\ pc = "vharm"
    /\ LET vh_individual_percentiles ==
               calculate_individual_harmonic_percentiles(dfs["Vh Harmonic %"], "V")
           r == voltage_harmonics_from(2, vh_individual_percentiles,
                                       VOLTAGE_LIMITS[v_limit_table],
                                       voltage_compliance, failing_points)
       IN  /\ voltage_compliance' = r.compliance
           /\ failing_points' = r.failing_points
    /\ pc' = "climit"
    /\ UNCHANGED << dfs, nominal_voltage, isc, il, clean_df,
                    voltage_thd_percentiles, current_thd_percentiles, summary_stats, tdd,
                    v_limit_table, current_compliance, c_limit_row, phase,
                    bar_chart_data, trend_data, analysis_results, raised >>

\* analyzer.py:322-331.
CurrentLimit ==
    /\ pc = "climit"
    /\ current_compliance' = "Pass"
    /\ c_limit_row' = select_c_limit_row(nominal_voltage, isc_il_ratio(isc, il))
    /\ pc' = IF c_limit_row' /= 0 THEN "ctdd" ELSE "bar"
    /\ UNCHANGED << dfs, nominal_voltage, isc, il, clean_df,
                    voltage_thd_percentiles, current_thd_percentiles, summary_stats, tdd,
                    failing_points, voltage_compliance, v_limit_table, phase,
                    bar_chart_data, trend_data, analysis_results, raised >>

\* analyzer.py:332-334.
CurrentTdd ==
    /\ pc = "ctdd"
    /\ LET r == current_tdd_check(tdd, CURRENT_LIMITS_120V_to_69kV[c_limit_row],
                                  current_compliance, failing_points)
       IN  /\ current_compliance' = r.compliance
           /\ failing_points' = r.failing_points
    /\ phase' = 1
    /\ pc' = "cthd"
    /\ UNCHANGED << dfs, nominal_voltage, isc, il, clean_df,
                    voltage_thd_percentiles, current_thd_percentiles, summary_stats, tdd,
                    voltage_compliance, v_limit_table, c_limit_row,
                    bar_chart_data, trend_data, analysis_results, raised >>

\* analyzer.py:336-351, one iteration of the loop over the phases.
CurrentThd ==
    /\ pc = "cthd"
    /\ LET r == current_thd_check(phase, current_thd_percentiles,
                                  CURRENT_LIMITS_120V_to_69kV[c_limit_row],
                                  current_compliance, failing_points)
       IN  /\ current_compliance' = r.compliance
           /\ failing_points' = r.failing_points
    /\ IF phase < 3
       THEN phase' = phase + 1 /\ pc' = pc
       ELSE phase' = phase /\ pc' = "charm"
    /\ UNCHANGED << dfs, nominal_voltage, isc, il, clean_df,
                    voltage_thd_percentiles, current_thd_percentiles, summary_stats, tdd,
                    voltage_compliance, v_limit_table, c_limit_row,
                    bar_chart_data, trend_data, analysis_results, raised >>

\* analyzer.py:353-363.
CurrentHarmonics ==
    /\ pc = "charm"
    /\ LET ah_individual_percentiles ==
               calculate_individual_harmonic_percentiles(dfs["Ah Harmonic %"], "A")
           r == current_harmonics_from(2, ah_individual_percentiles,
                                       CURRENT_LIMITS_120V_to_69kV[c_limit_row],
                                       current_compliance, failing_points)
       IN  /\ current_compliance' = r.compliance
           /\ failing_points' = r.failing_points
    /\ pc' = "bar"
    /\ UNCHANGED << dfs, nominal_voltage, isc, il, clean_df,
                    voltage_thd_percentiles, current_thd_percentiles, summary_stats, tdd,
                    voltage_compliance, v_limit_table, c_limit_row, phase,
                    bar_chart_data, trend_data, analysis_results, raised >>

\* analyzer.py:365-377.
BarChart ==
    /\ pc = "bar"
    /\ LET vh_individual_percentiles ==
               calculate_individual_harmonic_percentiles(dfs["Vh Harmonic %"], "V")
           ah_individual_percentiles ==
               calculate_individual_harmonic_percentiles(dfs["Ah Harmonic %"], "A")
       IN  bar_chart_data' =
               [ vh_data |-> [h \in HarmonicOrders |-> bar_value(vh_individual_percentiles, "V", h)],
                 ah_data |-> [h \in HarmonicOrders |-> bar_value(ah_individual_percentiles, "A", h)] ]
    /\ pc' = "trend"
    /\ UNCHANGED << dfs, nominal_voltage, isc, il, clean_df,
                    voltage_thd_percentiles, current_thd_percentiles, summary_stats, tdd,
                    failing_points, voltage_compliance, v_limit_table,
                    current_compliance, c_limit_row, phase,
                    trend_data, analysis_results, raised >>

\* analyzer.py:379-428: every charted channel goes through
\* series_to_json_list; the first absent one ends the call.
TrendData ==
    /\ pc = "trend"
    /\ IF \A col_name \in ChartedColumns : can_chart(clean_df, col_name)
       THEN /\ trend_data' = [col_name \in ChartedColumns |->
                                 to_numeric_safe(clean_df.data[col_name])]
            /\ raised' = raised
            /\ pc' = "report"
       ELSE /\ trend_data' = trend_data
            /\ raised' = "AttributeError"
            /\ pc' = "done"
    /\ UNCHANGED << dfs, nominal_voltage, isc, il, clean_df,
                    voltage_thd_percentiles, current_thd_percentiles, summary_stats, tdd,
                    failing_points, voltage_compliance, v_limit_table,
                    current_compliance, c_limit_row, phase,
                    bar_chart_data, analysis_results >>

\* analyzer.py:430-447.
Report ==
    /\ pc = "report"
    /\ LET results ==
               [ thdv_percent       |-> summary_stats.thdv_percent_avg,
                 tdd_percent        |-> tdd,
                 summary_stats      |-> summary_stats,
                 voltage_compliance |-> voltage_compliance,
                 current_compliance |-> current_compliance,
                 failing_points     |-> failing_points,
                 bar_chart_data     |-> bar_chart_data,
                 trend_data         |-> trend_data ]
       IN  analysis_results' =
               [ k \in (DOMAIN results) \cup {"recommendations"} |->
                   IF k = "recommendations" THEN generate_recommendations(results) ELSE results[k] ]
    /\ pc' = "done"
    /\ UNCHANGED << dfs, nominal_voltage, isc, il, clean_df,
                    voltage_thd_percentiles, current_thd_percentiles, summary_stats, tdd,
                    failing_points, voltage_compliance, v_limit_table,
                    current_compliance, c_limit_row, phase,
                    bar_chart_data, trend_data, raised >>

Next ==
    \/ LoadSheets
    \/ CleanTrend
    \/ ThdPercentiles
    \/ SummaryStats
    \/ Tdd
    \/ VoltageLimit
    \/ VoltageThd
    \/ VoltageHarmonics
    \/ CurrentLimit
    \/ CurrentTdd
    \/ CurrentThd
    \/ CurrentHarmonics
    \/ BarChart
    \/ TrendData
    \/ Report

Spec == Init /\ [][Next]_vars

\* The call has returned its report.
Returned == pc = "done" /\ raised = "none"

(***************************************************************************)
(* Properties                                                              *)
(***************************************************************************)

\* The call has ended, by return or by exception.
Ended == pc = "done"

\* The three required sheets are in the workbook.
SheetsPresent == SheetNames \subseteq DOMAIN dfs

\* The verdicts and limit rows are bound from these positions on.
VoltageLimitBound ==
    \/ pc \in {"vthd", "vharm", "climit", "ctdd", "cthd", "charm", "bar", "trend", "report"}
    \/ pc = "done" /\ raised /= "ValueError"

CurrentLimitBound ==
    \/ pc \in {"ctdd", "cthd", "charm", "bar", "trend", "report"}
    \/ pc = "done" /\ raised /= "ValueError"

\* The categories of failing points of each verdict.
VoltageCategories == {"Voltage THD", "Individual Voltage Harmonics"}
CurrentCategories == {"Current TDD", "Current THD", "Individual Current Harmonics"}

\* The "healthy" end-to-end scenario: a Trend sheet with U1 RMS = 230 V
\* and THD = 0 % on every phase and no other channel, no harmonic column,
\* nominal voltage 400 V, Isc = 1000 A, Il = 50 A.
HealthyScenario ==
    /\ SheetsPresent
    /\ dfs["Trend"] \in { MakeTrend(HealthyColumns, n, "regular", "quiet") : n \in 1..MaxRows }
    /\ dfs["Vh Harmonic %"] = NoHarmonics("V")
    /\ dfs["Ah Harmonic %"] = NoHarmonics("A")
    /\ nominal_voltage = 400 /\ isc = 1000 /\ il = 50

\* C1 (as claimed): in the healthy scenario analyze_full_data returns a
\* report with both verdicts "Pass", no failing point and the single
\* "system healthy" recommendation.
C1_HealthyScenarioReport ==
    (HealthyScenario /\ Ended) =>
        /\ raised = "none"
        /\ analysis_results.voltage_compliance = "Pass"
        /\ analysis_results.current_compliance = "Pass"
        /\ analysis_results.failing_points = EmptyDict
        /\ analysis_results.recommendations = <<RecHealthy>>

\* C2 (as claimed): analyze_full_data raises exactly when one of the three
\* sheets is absent; with all three present it returns a report whatever
\* columns, timestamps, cells and Il it is given.
C2_RaisesOnlyOnMissingSheet ==
    Ended => (raised /= "none" <=> ~SheetsPresent)

\* Some voltage rule is violated by the percentiles of the request.
AnyVoltageCheckViolated ==
    LET limits == VOLTAGE_LIMITS[v_limit_table]
        vh == calculate_individual_harmonic_percentiles(dfs["Vh Harmonic %"], "V")
    IN  \E p \in Phases :
           \/ 2 * Get(voltage_thd_percentiles, <<ThdColumn("U", p), "99th_3s">>, 0) > 3 * limits.thd
           \/ Get(voltage_thd_percentiles, <<ThdColumn("U", p), "95th_10min">>, 0) > limits.thd
           \/ \E h \in HarmonicOrders : Get(vh, HarmonicColumn("V", p, h), 0) > limits.individual

\* Some current rule that was evaluated is violated.
AnyCurrentCheckViolated ==
    /\ c_limit_row /= 0
    /\ LET row == CURRENT_LIMITS_120V_to_69kV[c_limit_row]
           ah == calculate_individual_harmonic_percentiles(dfs["Ah Harmonic %"], "A")
       IN  \/ tdd > row.tdd
           \/ \E p \in Phases :
                 \/ Get(current_thd_percentiles, <<ThdColumn("A", p), "99th_3s">>, 0) > 2 * row.tdd
                 \/ Get(current_thd_percentiles, <<ThdColumn("A", p), "95th_10min">>, 0) > row.tdd
                 \/ 2 * Get(current_thd_percentiles, <<ThdColumn("A", p), "99th_10min">>, 0) > 3 * row.tdd
                 \/ \E h \in HarmonicOrders :
                       Get(ah, HarmonicColumn("A", p, h), 0) > get_current_limit_for_harmonic(h, row)

\* C3: each verdict is first bound to "Pass", no step of a run takes a
\* verdict that is "Fail" to anything else, and the verdict returned is
\* "Fail" if any evaluated check of its rules is violated.
C3_ComplianceMonotone ==
    /\ [][ /\ voltage_compliance = "Fail" => voltage_compliance' = "Fail"
           /\ current_compliance = "Fail" => current_compliance' = "Fail"
           /\ voltage_compliance = Unbound => voltage_compliance' \in {Unbound, "Pass"}
           /\ current_compliance = Unbound => current_compliance' \in {Unbound, "Pass"} ]_vars
    /\ [](Returned =>
            /\ AnyVoltageCheckViolated => analysis_results.voltage_compliance = "Fail"
            /\ AnyCurrentCheckViolated => analysis_results.current_compliance = "Fail")

\* C3 witness: a report whose two verdicts became "Fail" at a THD or TDD
\* rule and stayed "Fail" through all the individual-harmonic checks that
\* followed, none of which was violated.
C3_Witness ==
    /\ Returned
    /\ analysis_results.voltage_compliance = "Fail"
    /\ analysis_results.current_compliance = "Fail"
    /\ "Voltage THD" \in DOMAIN failing_points
    /\ "Current TDD" \in DOMAIN failing_points
    /\ "Individual Voltage Harmonics" \notin DOMAIN failing_points
    /\ "Individual Current Harmonics" \notin DOMAIN failing_points

\* The individual-harmonic percentiles of the request, by prefix.
HarmonicPercentiles(prefix) ==
    IF prefix = "V"
    THEN calculate_individual_harmonic_percentiles(dfs["Vh Harmonic %"], "V")
    ELSE calculate_individual_harmonic_percentiles(dfs["Ah Harmonic %"], "A")

\* The orders at which phase p violates the individual-harmonic rule that
\* was evaluated for the prefix.
FailedOrders(prefix, p) ==
    { h \in HarmonicOrders :
        IF prefix = "V"
        THEN Get(HarmonicPercentiles("V"), HarmonicColumn("V", p, h), 0)
                 > VOLTAGE_LIMITS[v_limit_table].individual
        ELSE /\ c_limit_row /= 0
             /\ Get(HarmonicPercentiles("A"), HarmonicColumn("A", p, h), 0)
                    > get_current_limit_for_harmonic(h, CURRENT_LIMITS_120V_to_69kV[c_limit_row]) }

HarmonicCategory(prefix) ==
    IF prefix = "V" THEN "Individual Voltage Harmonics" ELSE "Individual Current Harmonics"

\* C4 (as claimed): when two or more orders fail on the same phase for an
\* individual-harmonic rule, the report holds those orders as entries of
\* the 'harmonics' collection of one single description of the category.
C4_HarmonicsGroupedUnderOneDescription ==
    Returned =>
        \A prefix \in {"V", "A"} : \A p \in Phases :
            Cardinality(FailedOrders(prefix, p)) >= 2 =>
                /\ HarmonicCategory(prefix) \in DOMAIN analysis_results.failing_points
                /\ LET entries == analysis_results.failing_points[HarmonicCategory(prefix)]
                   IN  \E d \in DOMAIN entries :
                          \A h \in FailedOrders(prefix, p) :
                             \E i \in 1..Len(entries[d].harmonics) : entries[d].harmonics[i] = h

\* The band of CURRENT_LIMITS_120V_to_69kV that Isc / Il falls in, edges
\* 20, 50, 100 and 1000 belonging to the band above them.
ExpectedRatioBand ==
    IF il <= 0 THEN 1
    ELSE IF isc < 20 * il THEN 1
    ELSE IF isc < 50 * il THEN 2
    ELSE IF isc < 100 * il THEN 3
    ELSE IF isc < 1000 * il THEN 4
    ELSE 5

\* C5: at a nominal voltage of at most 69 kV and a ratio Isc / Il >= 0
\* (0 when Il <= 0), exactly one current-limit row holds the ratio and it
\* is the row selected; a ratio on a band edge selects the band above and
\* a ratio of 0 the lowest band, whose TDD limit is 5.0 %.
C5_RatioBandSelection ==
    (CurrentLimitBound /\ nominal_voltage <= 69000 /\ isc >= 0) =>
        /\ c_limit_row = ExpectedRatioBand
        /\ Cardinality({ k \in 1..Len(CURRENT_LIMITS_120V_to_69kV) :
                           in_band(isc_il_ratio(isc, il), CURRENT_LIMITS_120V_to_69kV[k]) }) = 1
        /\ (il <= 0 \/ isc = 0) => CURRENT_LIMITS_120V_to_69kV[c_limit_row].tdd = 50

\* C5 witness: Isc / Il = 2500 / 50 = 50, the edge between the third and
\* the second band, selected the third.
C5_Witness ==
    /\ CurrentLimitBound /\ nominal_voltage <= 69000
    /\ isc = 2500 /\ il = 50 /\ c_limit_row = 3

\* The four voltage bands: (lo, hi] in volts, the first holding 0 and the
\* last unbounded above.
VoltageBands ==
    { [key |-> "V_le_1kV",        lo |-> 0,      hi |-> 1000,   top |-> FALSE],
      [key |-> "V_1kV_to_69kV",   lo |-> 1000,   hi |-> 69000,  top |-> FALSE],
      [key |-> "V_69kV_to_161kV", lo |-> 69000,  hi |-> 161000, top |-> FALSE],
      [key |-> "V_gt_161kV",      lo |-> 161000, hi |-> 161000, top |-> TRUE] }

InVoltageBand(band, voltage) ==
    /\ band.lo < voltage \/ (band.lo = 0 /\ voltage = 0)
    /\ band.top \/ voltage <= band.hi

\* C6: every non-negative nominal voltage lies in exactly one of the four
\* voltage bands, the row selected is the row of that band, and a voltage
\* above 161 kV selects the highest band.
C6_VoltageBandSelection ==
    (VoltageLimitBound /\ nominal_voltage >= 0) =>
        /\ Cardinality({ b \in VoltageBands : InVoltageBand(b, nominal_voltage) }) = 1
        /\ \A b \in VoltageBands : InVoltageBand(b, nominal_voltage) => v_limit_table = b.key
        /\ nominal_voltage > 161000 => v_limit_table = "V_gt_161kV"

\* C6 witness: a nominal voltage on a band edge, 69 kV, selected the band
\* below the edge.
C6_Witness ==
    VoltageLimitBound /\ nominal_voltage = 69000 /\ v_limit_table = "V_1kV_to_69kV"

\* C7: above 69 kV no current rule is evaluated: the current verdict is
\* "Pass" and no failing point is in a current category, in every state of
\* the run and in the report.
C7_CurrentSkippedAbove69kV ==
    (CurrentLimitBound /\ nominal_voltage > 69000) =>
        /\ c_limit_row = 0
        /\ current_compliance = "Pass"
        /\ (DOMAIN failing_points) \cap CurrentCategories = {}
        /\ Returned =>
              /\ analysis_results.current_compliance = "Pass"
              /\ (DOMAIN analysis_results.failing_points) \cap CurrentCategories = {}

\* C7 witness: a report above 69 kV whose current THD and individual
\* current harmonics exceed the limits of every row, and whose TDD is
\* above the limit of four of them.
C7_Witness ==
    /\ Returned /\ nominal_voltage > 69000
    /\ Get(current_thd_percentiles, <<"A1 THD", "95th_10min">>, 0) > 200
    /\ Get(HarmonicPercentiles("A"), HarmonicColumn("A", 1, 5), 0) > 150
    /\ tdd > 150
    /\ analysis_results.current_compliance = "Pass"

\* The TDD is bound from these positions on.
TddBound ==
    \/ pc \in {"vlimit", "vthd", "vharm", "climit", "ctdd", "cthd", "charm", "bar", "trend", "report"}
    \/ pc = "done" /\ raised /= "ValueError"

\* The guard of the TDD: THDi (A1, 95th of the 10-minute values), the
\* average A1 RMS current or Il is not positive.
TddGuarded ==
    \/ Get(current_thd_percentiles, <<"A1 THD", "95th_10min">>, 0) <= 0
    \/ summary_stats.a1_rms_avg <= 0
    \/ il <= 0

\* C8: whenever THDi, the average A1 RMS current or Il is not positive,
\* the TDD is exactly 0, it is reported as 0 and the Current TDD rule
\* records no failing point.
C8_TddGuard ==
    (TddBound /\ TddGuarded) =>
        /\ tdd = 0
        /\ "Current TDD" \notin DOMAIN failing_points
        /\ Returned =>
              /\ analysis_results.tdd_percent = 0
              /\ "Current TDD" \notin DOMAIN analysis_results.failing_points

\* C8 witness: a report for a request whose Il is not positive while THDi
\* and the average current are, and whose current rules were evaluated.
C8_Witness ==
    /\ Returned /\ il <= 0 /\ c_limit_row /= 0
    /\ Get(current_thd_percentiles, <<"A1 THD", "95th_10min">>, 0) > 0
    /\ summary_stats.a1_rms_avg > 0
    /\ analysis_results.tdd_percent = 0

\* m is in the list of recommendations.
Recommends(m) ==
    \E i \in 1..Len(analysis_results.recommendations) : analysis_results.recommendations[i] = m

\* C9: in a report each advisory message is present exactly when its own
\* trigger holds, the "healthy" message exactly when no trigger holds, and
\* then it is the only entry; the list is never empty.
C9_Recommendations ==
    Returned =>
        LET voltage_fail == analysis_results.voltage_compliance = "Fail"
            current_fail == analysis_results.current_compliance = "Fail"
            low_pf == analysis_results.summary_stats.power_factor_avg < 950
        IN  /\ Recommends(RecVoltage) <=> voltage_fail
            /\ Recommends(RecCurrent) <=> current_fail
            /\ Recommends(RecPowerFactor) <=> low_pf
            /\ Recommends(RecHealthy) <=> ~(voltage_fail \/ current_fail \/ low_pf)
            /\ Recommends(RecHealthy) => analysis_results.recommendations = <<RecHealthy>>
            /\ analysis_results.recommendations /= <<>>

\* C9 witness: a report in which all three triggers hold and all three
\* advisory messages are listed.
C9_Witness ==
    /\ Returned
    /\ analysis_results.voltage_compliance = "Fail"
    /\ analysis_results.current_compliance = "Fail"
    /\ analysis_results.summary_stats.power_factor_avg < 950
    /\ Len(analysis_results.recommendations) = 3

\* The mean of the 95th percentiles of the phases whose column of order h
\* is in the harmonic sheet, 0 when no phase has one.
MeanOfAvailable(prefix, h) ==
    LET percentiles == HarmonicPercentiles(prefix)
        available == { p \in Phases : HarmonicColumn(prefix, p, h) \in DOMAIN percentiles }
        total == Sum([p \in 1..3 |-> Get(percentiles, HarmonicColumn(prefix, p, h), 0)])
    IN  IF available = {} THEN 0 ELSE total \div Cardinality(available)

\* C10 (as claimed): every bar value of the report is the mean over the
\* phases available for its order, 0 when none is.
C10_BarChartMeanOfAvailable ==
    Returned =>
        \A h \in HarmonicOrders :
            /\ analysis_results.bar_chart_data.vh_data[h] = MeanOfAvailable("V", h)
            /\ analysis_results.bar_chart_data.ah_data[h] = MeanOfAvailable("A", h)

\* What the description texts of category "Current THD" say
\* (analyzer.py:343, 347, 351): the percentile they name and, as num / den,
\* the multiple of the TDD limit they state.
StatedCurrentThdRule ==
    ("99th Percentile (3s) > 1.5x TDD limit" :> [percentile |-> "99th_3s", num |-> 3, den |-> 2])
    @@ ("95th Percentile (10min) > TDD limit" :> [percentile |-> "95th_10min", num |-> 1, den |-> 1])
    @@ ("99th Percentile (10min) > 1.5x TDD limit" :> [percentile |-> "99th_10min", num |-> 3, den |-> 2])

\* The three severity tiers of the current THD rule: the percentile
\* compared and, as num / den, the multiple of the TDD limit it is
\* compared with.
CurrentThdTiers ==
    { [percentile |-> "99th_3s",    num |-> 2, den |-> 1],
      [percentile |-> "95th_10min", num |-> 1, den |-> 1],
      [percentile |-> "99th_10min", num |-> 3, den |-> 2] }

\* Phase p is recorded in the report under the description text of
\* category "Current THD".
RecordedCurrentThd(text, p) ==
    LET fp == analysis_results.failing_points
        d == Description(text, 0)
    IN  /\ "Current THD" \in DOMAIN fp
        /\ d \in DOMAIN fp["Current THD"]
        /\ \E i \in 1..Len(fp["Current THD"][d].phases) :
              fp["Current THD"][d].phases[i] = <<PhaseName("A", p)>>

\* C11 (as claimed): when a current-limit row is selected, each phase is
\* tested against each of the three tiers on its own; a phase that
\* violates a tier makes the current verdict "Fail" and is recorded under
\* that tier's description, which states the multiple of the TDD limit
\* the tier applies; a phase that does not violate a tier is not recorded
\* under a description of that tier.
C11_CurrentThdTiers ==
    (Returned /\ c_limit_row /= 0) =>
        \A p \in Phases : \A tier \in CurrentThdTiers :
            LET limit == CURRENT_LIMITS_120V_to_69kV[c_limit_row].tdd
                value == Get(current_thd_percentiles, <<ThdColumn("A", p), tier.percentile>>, 0)
                violated == tier.den * value > tier.num * limit
                own == { text \in DOMAIN StatedCurrentThdRule :
                           StatedCurrentThdRule[text].percentile = tier.percentile }
            IN  /\ violated =>
                      /\ analysis_results.current_compliance = "Fail"
                      /\ \E text \in own :
                            /\ RecordedCurrentThd(text, p)
                            /\ StatedCurrentThdRule[text].num * tier.den
                                  = tier.num * StatedCurrentThdRule[text].den
                /\ ~violated => \A text \in own : ~RecordedCurrentThd(text, p)

\* The report has a failing point under one of the categories.
HasFailingPoint(categories) ==
    \E c \in categories \cap DOMAIN analysis_results.failing_points :
        DOMAIN analysis_results.failing_points[c] /= {}

\* C12: in every returned report a verdict is "Fail" exactly when the
\* failing points hold an entry under one of its categories, the failing
\* points are empty exactly when both verdicts are "Pass", and no entry
\* lists a phase twice.
C12_VerdictFailingPointConsistency ==
    Returned =>
        LET fp == analysis_results.failing_points
        IN  /\ analysis_results.voltage_compliance \in {"Pass", "Fail"}
            /\ analysis_results.current_compliance \in {"Pass", "Fail"}
            /\ analysis_results.voltage_compliance = "Fail" <=> HasFailingPoint(VoltageCategories)
            /\ analysis_results.current_compliance = "Fail" <=> HasFailingPoint(CurrentCategories)
            /\ DOMAIN fp \subseteq VoltageCategories \cup CurrentCategories
            /\ DOMAIN fp = {} <=>
                  /\ analysis_results.voltage_compliance = "Pass"
                  /\ analysis_results.current_compliance = "Pass"
            /\ \A c \in DOMAIN fp : \A d \in DOMAIN fp[c] :
                  \A i, j \in 1..Len(fp[c][d].phases) :
                      fp[c][d].phases[i] = fp[c][d].phases[j] => i = j

\* C12 witness: a report whose voltage verdict is "Fail" and whose current
\* verdict is "Pass", with failing points under voltage categories only,
\* one of them listing several phases.
C12_Witness ==
    /\ Returned
    /\ analysis_results.voltage_compliance = "Fail"
    /\ analysis_results.current_compliance = "Pass"
    /\ HasFailingPoint(VoltageCategories)
    /\ ~HasFailingPoint(CurrentCategories)
    /\ "Voltage THD" \in DOMAIN analysis_results.failing_points
    /\ \E d \in DOMAIN analysis_results.failing_points["Voltage THD"] :
          Len(analysis_results.failing_points["Voltage THD"][d].phases) >= 2

====
